---- MODULE Spec2Model ----
(***************************************************************************)
(* A model of thunderbird-mcp's bridge layer: token resolution (auth.rs),  *)
(* the response sanitizer (sanitize.rs), Bridge::call (bridge.rs) and the  *)
(* process startup that wires them together (main.rs).                     *)
(*                                                                         *)
(* Text is modelled as a sequence of Unicode scalar values (integers), so  *)
(* that trimming, sanitizing and JSON parsing are computed scalar by       *)
(* scalar as the code computes them.                                       *)
(***************************************************************************)
EXTENDS Integers, Sequences, FiniteSets, TLC

VARIABLES
    home,       \* what dirs::home_dir() yields: a path, or NoHome
    fs,         \* the filesystem: candidate path -> file state
    main_pc,    \* position of main()
    token_res,  \* the Result of auth::find_token()
    bridge,     \* the Bridge main() constructed (or NoBridge)
    calls,      \* the Bridge::call invocations in flight, by slot
    fwd,        \* the forwarder invocation behind the call of each slot
    ninv,       \* number of Bridge::call invocations started so far
    san_in,     \* sanitize_str: the argument
    san_out     \* sanitize_str: the results of applying it once and twice

vars == <<home, fs, main_pc, token_res, bridge, calls, fwd, ninv, fwd, san_in, san_out>>

----------------------------------------------------------------------------
(* Bounds of the model *)

\* longest input string given to sanitize_str
MaxLen == 3
\* number of Bridge::call invocations that can be in flight at once
MaxCalls == 2
\* number of Bridge::call invocations over one run of the process
MaxInvocations == 2

----------------------------------------------------------------------------
(* Scalars *)

\* Names of the scalars used to spell texts; a name is a printable character
\* or the usual abbreviation of a control character.
Code ==
    ("NUL" :> 0) @@ ("SOH" :> 1) @@ ("BEL" :> 7) @@ ("BS" :> 8) @@ ("TAB" :> 9) @@
    ("LF" :> 10) @@ ("VT" :> 11) @@ ("FF" :> 12) @@ ("CR" :> 13) @@ ("SO" :> 14) @@
    ("US" :> 31) @@ (" " :> 32) @@ ("\"" :> 34) @@ ("," :> 44) @@ ("-" :> 45) @@
    ("/" :> 47) @@ ("B" :> 66) @@ ("0" :> 48) @@ ("1" :> 49) @@ ("2" :> 50) @@ ("7" :> 55) @@
    (":" :> 58) @@ ("<" :> 60) @@ (">" :> 62) @@ ("[" :> 91) @@ ("\\" :> 92) @@
    ("]" :> 93) @@ ("_" :> 95) @@ ("a" :> 97) @@ ("b" :> 98) @@ ("c" :> 99) @@ ("d" :> 100) @@
    ("e" :> 101) @@ ("f" :> 102) @@ ("h" :> 104) @@ ("i" :> 105) @@ ("k" :> 107) @@ ("l" :> 108) @@
    ("n" :> 110) @@ ("o" :> 111) @@ ("r" :> 114) @@ ("s" :> 115) @@ ("t" :> 116) @@
    ("u" :> 117) @@ ("x" :> 120) @@ ("{" :> 123) @@ ("}" :> 125) @@ ("DEL" :> 127) @@
    ("PAD" :> 128) @@ ("NEL" :> 133) @@ ("NBSP" :> 160) @@ ("e'" :> 233) @@
    ("nichi" :> 26085) @@
    ("?" :> 63) @@ ("C" :> 67) @@ ("E" :> 69) @@ ("I" :> 73) @@ ("J" :> 74) @@
    ("M" :> 77) @@ ("N" :> 78) @@ ("O" :> 79) @@ ("P" :> 80) @@ ("S" :> 83) @@
    ("T" :> 84) @@ ("U" :> 85) @@ ("g" :> 103) @@ ("m" :> 109) @@ ("v" :> 118) @@
    ("w" :> 119) @@ ("z" :> 122) @@ ("emdash" :> 8212)

\* The text spelled by a sequence of scalar names.
T(names) == [i \in 1..Len(names) |-> Code[names[i]]]

----------------------------------------------------------------------------
(* sanitize.rs *)

\* SanitizeKeep with DEL let through.
SanitizeKeep_with_del(n) == n \in {9, 10, 13} \/ n >= 32

\* The closure given to filter: allow \t, \n, \r and everything >= 0x20
\* except DEL.
SanitizeKeep(n) == n \in {9, 10, 13} \/ (n >= 32 /\ n # 127)

\* sanitize_str that stops filtering after the first scalar it drops.
RECURSIVE sanitize_first_only(_)
sanitize_first_only(s) ==
    IF s = <<>> THEN <<>>
    ELSE IF SanitizeKeep(Head(s)) THEN <<Head(s)>> \o sanitize_first_only(Tail(s))
         ELSE Tail(s)

\* s.chars().filter(..).collect(): the kept scalars, in order.
RECURSIVE sanitize_str(_)
sanitize_str(s) ==
    IF s = <<>> THEN <<>>
    ELSE IF SanitizeKeep(Head(s)) THEN <<Head(s)>> \o sanitize_str(Tail(s))
         ELSE sanitize_str(Tail(s))

----------------------------------------------------------------------------
(* auth.rs *)

\* Path::join of a directory and a relative path; a path is the sequence of
\* its components.
join(dir, rel) == dir \o rel

\* The scalars with the Unicode White_Space property (char::is_whitespace),
\* which str::trim removes from both ends.
is_whitespace(c) ==
    \/ c \in 9..13
    \/ c \in {32, 133, 160, 5760, 8232, 8233, 8239, 8287, 12288}
    \/ c \in 8192..8202

RECURSIVE trim_start(_)
trim_start(s) ==
    IF s # <<>> /\ is_whitespace(Head(s)) THEN trim_start(Tail(s)) ELSE s

RECURSIVE trim_end(_)
trim_end(s) ==
    IF s # <<>> /\ is_whitespace(s[Len(s)])
    THEN trim_end(SubSeq(s, 1, Len(s) - 1)) ELSE s

\* trim that leaves leading whitespace in place (str::trim_end).
trim_end_only(s) == trim_end(s)

\* str::trim
trim(s) == trim_end(trim_start(s))

\* File states.  std::fs::read_to_string succeeds exactly on a file that
\* exists, can be opened and holds valid UTF-8 ("text"); "missing" and
\* "unreadable" (no permission, a directory, invalid UTF-8) make it fail.
Missing == [kind |-> "missing", content |-> <<>>]
Unreadable == [kind |-> "unreadable", content |-> <<>>]
Text(c) == [kind |-> "text", content |-> c]

read_to_string(path) ==
    IF path \in DOMAIN fs /\ fs[path].kind = "text"
    THEN [ok |-> TRUE, content |-> fs[path].content]
    ELSE [ok |-> FALSE, content |-> <<>>]

\* Results of token resolution.
NoResult == [tag |-> "None"]
Ok(t) == [tag |-> "Ok", token |-> t]
ErrNoHome == [tag |-> "NoHome"]
ErrNotFound(ps) == [tag |-> "NotFound", paths |-> ps]

\* candidates with the snap path first.
candidates_snap_first(h) ==
    << join(h, <<"snap", "thunderbird", "common", ".thunderbird-mcp-auth">>),
       join(h, <<".thunderbird-mcp-auth">>) >>

\* The two candidate paths of find_token_in, in the order they are tried.
candidates(h) ==
    << join(h, <<".thunderbird-mcp-auth">>),
       join(h, <<"snap", "thunderbird", "common", ".thunderbird-mcp-auth">>) >>

\* The loop of find_token_in from candidate i on.
RECURSIVE try_candidates(_, _)
try_candidates(cs, i) ==
    IF i > Len(cs) THEN ErrNotFound(cs)
    ELSE IF read_to_string(cs[i]).ok
         THEN Ok(trim(read_to_string(cs[i]).content))
         ELSE try_candidates(cs, i + 1)

find_token_in(h) == try_candidates(candidates(h), 1)

\* Option<PathBuf>, as dirs::home_dir() returns it.
NoHome == [some |-> FALSE, path |-> <<>>]
SomeHome(p) == [some |-> TRUE, path |-> p]

\* dirs::home_dir().ok_or(AuthError::NoHome)?, then find_token_in(&home)
find_token == IF ~home.some THEN ErrNoHome ELSE find_token_in(home.path)

----------------------------------------------------------------------------
(* serde_json, as bridge.rs uses it: from_str, Value::get, Value::as_str.  *)
(* Numbers are read as unsigned integers only: no text of the model puts   *)
(* '-', '.', 'e' or 'E' where a number may start or continue, and none     *)
(* uses a \u escape.                                                       *)

JNull == [t |-> "Null"]
JBool(b) == [t |-> "Bool", b |-> b]
JNumber(n) == [t |-> "Number", n |-> n]
JString(str) == [t |-> "String", s |-> str]
JArray(elems) == [t |-> "Array", a |-> elems]
JObject(map) == [t |-> "Object", m |-> map]

EmptyMap == [k \in {} |-> JNull]
\* Map::insert: a key already present gets the new value.
insert(map, k, v) == [x \in DOMAIN map \cup {k} |-> IF x = k THEN v ELSE map[x]]

\* A parse step's result: the value read and the index after it.
Fail == [ok |-> FALSE, v |-> JNull, i |-> 0]
Done(v, i) == [ok |-> TRUE, v |-> v, i |-> i]

\* JSON whitespace: space, \n, \t, \r
RECURSIVE skip_ws(_, _)
skip_ws(s, i) ==
    IF i <= Len(s) /\ s[i] \in {32, 10, 9, 13} THEN skip_ws(s, i + 1) ELSE i

\* The literals null, true and false.
parse_ident(s, i, word, v) ==
    IF i + Len(word) - 1 <= Len(s) /\ SubSeq(s, i, i + Len(word) - 1) = word
    THEN Done(v, i + Len(word)) ELSE Fail

Digits == 48..57

RECURSIVE parse_digits(_, _, _)
parse_digits(s, i, n) ==
    IF i <= Len(s) /\ s[i] \in Digits
    THEN parse_digits(s, i + 1, 10 * n + (s[i] - 48)) ELSE Done(JNumber(n), i)

\* A leading 0 may not be followed by a digit.
parse_number(s, i) ==
    IF s[i] = 48
    THEN IF i + 1 <= Len(s) /\ s[i + 1] \in Digits THEN Fail
         ELSE Done(JNumber(0), i + 1)
    ELSE parse_digits(s, i, 0)

\* The scalar an escape \c stands for.
Escapes ==
    (34 :> 34) @@ (92 :> 92) @@ (47 :> 47) @@ (98 :> 8) @@ (102 :> 12) @@
    (110 :> 10) @@ (114 :> 13) @@ (116 :> 9)

\* A string's characters from index i (after the opening quote) up to the
\* closing quote.  A raw control character below 0x20 is an error.
RECURSIVE parse_str(_, _, _)
parse_str(s, i, acc) ==
    IF i > Len(s) THEN Fail
    ELSE IF s[i] = 34 THEN Done(acc, i + 1)
    ELSE IF s[i] = 92
         THEN IF i + 1 <= Len(s) /\ s[i + 1] \in DOMAIN Escapes
              THEN parse_str(s, i + 2, Append(acc, Escapes[s[i + 1]]))
              ELSE Fail
    ELSE IF s[i] < 32 THEN Fail
    ELSE parse_str(s, i + 1, Append(acc, s[i]))

RECURSIVE parse_value(_, _), parse_elems(_, _, _), parse_members(_, _, _)

parse_value(s, i0) ==
    LET i == skip_ws(s, i0) IN
    IF i > Len(s) THEN Fail
    ELSE CASE s[i] = 110 -> parse_ident(s, i, <<110, 117, 108, 108>>, JNull)
           [] s[i] = 116 -> parse_ident(s, i, <<116, 114, 117, 101>>, JBool(TRUE))
           [] s[i] = 102 -> parse_ident(s, i, <<102, 97, 108, 115, 101>>, JBool(FALSE))
           [] s[i] \in Digits -> parse_number(s, i)
           [] s[i] = 34 ->
                LET r == parse_str(s, i + 1, <<>>) IN
                IF r.ok THEN Done(JString(r.v), r.i) ELSE Fail
           [] s[i] = 91 ->
                LET j == skip_ws(s, i + 1) IN
                IF j <= Len(s) /\ s[j] = 93 THEN Done(JArray(<<>>), j + 1)
                ELSE parse_elems(s, j, <<>>)
           [] s[i] = 123 ->
                LET j == skip_ws(s, i + 1) IN
                IF j <= Len(s) /\ s[j] = 125 THEN Done(JObject(EmptyMap), j + 1)
                ELSE parse_members(s, j, EmptyMap)
           [] OTHER -> Fail

\* The elements of an array, a value being expected at i.
parse_elems(s, i, acc) ==
    LET r == parse_value(s, i) IN
    IF ~r.ok THEN Fail
    ELSE LET j == skip_ws(s, r.i) IN
         IF j > Len(s) THEN Fail
         ELSE IF s[j] = 44 THEN parse_elems(s, j + 1, Append(acc, r.v))
         ELSE IF s[j] = 93 THEN Done(JArray(Append(acc, r.v)), j + 1)
         ELSE Fail

\* The members of an object, a key being expected at i.
parse_members(s, i, map) ==
    LET k0 == skip_ws(s, i) IN
    IF k0 > Len(s) \/ s[k0] # 34 THEN Fail
    ELSE LET k == parse_str(s, k0 + 1, <<>>) IN
         IF ~k.ok THEN Fail
         ELSE LET c == skip_ws(s, k.i) IN
              IF c > Len(s) \/ s[c] # 58 THEN Fail
              ELSE LET r == parse_value(s, c + 1) IN
                   IF ~r.ok THEN Fail
                   ELSE LET j == skip_ws(s, r.i) IN
                        IF j > Len(s) THEN Fail
                        ELSE IF s[j] = 44
                             THEN parse_members(s, j + 1, insert(map, k.v, r.v))
                        ELSE IF s[j] = 125
                             THEN Done(JObject(insert(map, k.v, r.v)), j + 1)
                        ELSE Fail

\* serde_json::from_str: one value, then only whitespace up to the end.
from_str(s) ==
    LET r == parse_value(s, 1) IN
    IF r.ok /\ skip_ws(s, r.i) > Len(s) THEN [ok |-> TRUE, v |-> r.v]
    ELSE [ok |-> FALSE, v |-> JNull]

None == [some |-> FALSE]
Some(x) == [some |-> TRUE, x |-> x]

\* Value::get with a string index: the member of an object, else None.
get(v, key) ==
    IF v.t = "Object" /\ key \in DOMAIN v.m THEN Some(v.m[key]) ELSE None

\* Value::as_str
as_str(v) == IF v.t = "String" THEN Some(v.s) ELSE None

----------------------------------------------------------------------------
(* bridge.rs *)

\* Result<Value, BridgeError>
CallOk(v) == [tag |-> "Ok", value |-> v]
ConnectionFailed == [tag |-> "ConnectionFailed"]
ExtensionError(msg) == [tag |-> "ExtensionError", msg |-> msg]
InvalidJson == [tag |-> "InvalidJson"]
Unauthorized == [tag |-> "Unauthorized"]
Pending == [tag |-> "Pending"]

\* Bridge { base_url, token }; the reqwest Client holds no state of the model.
NoBridge == [built |-> FALSE, base_url |-> "", token |-> <<>>]

\* Bridge::with_base_url
with_base_url(token, base_url) ==
    [built |-> TRUE, base_url |-> base_url, token |-> token]

\* Bridge::new
new(token) == with_base_url(token, "http://localhost:8765")

\* "Bearer "
BearerPrefix == T(<<"B", "e", "a", "r", "e", "r", " ">>)

\* bearer_auth with the space after the scheme left out.
bearer_auth_no_space(token) == T(<<"B", "e", "a", "r", "e", "r">>) \o token

\* RequestBuilder::bearer_auth: the header value format!("Bearer {token}")
bearer_auth(token) == BearerPrefix \o token

\* http::HeaderValue accepts a value whose bytes are all TAB or 0x20..=0xFF
\* other than DEL; a scalar >= 0x80 is encoded in such bytes only.  On any
\* other value the builder holds an error and send() fails at once.
header_valid(v) == \A k \in 1..Len(v) : v[k] = 9 \/ (v[k] >= 32 /\ v[k] # 127)

NoReq == [sent |-> FALSE]
NoResp == [status |-> 0, body |-> <<>>]

\* One Bridge::call invocation: where it stands, the request it has sent
\* (nreq counts every request it hands to the transport), the response it got,
\* what became of resp.text() ("unread", "failed" or "read"), and its result.
IdleCall ==
    [pc |-> "idle", req |-> NoReq, nreq |-> 0, resp |-> NoResp,
     text |-> "unread", out |-> Pending]

\* format!("{}{}", self.base_url, path), .post(&url), .bearer_auth(..),
\* .json(&params)
build_request(b, path, params) ==
    [sent |-> TRUE, method |-> "POST", url |-> b.base_url \o path,
     authorization |-> bearer_auth(b.token), json |-> params]

\* .send(): the request goes out, unless the builder holds an error.
send(b, path, params) ==
    IF header_valid(bearer_auth(b.token))
    THEN [IdleCall EXCEPT !.pc = "sending",
                          !.req = build_request(b, path, params),
                          !.nreq = 1]
    ELSE [IdleCall EXCEPT !.pc = "done", !.out = ConnectionFailed]

\* send_failed with one retry: the request is handed to the transport again.
send_failed_retry(c) ==
    IF c.nreq < 2 THEN [c EXCEPT !.nreq = c.nreq + 1]
    ELSE [c EXCEPT !.pc = "done", !.out = ConnectionFailed]

\* .await? on send(): a transport error returns ConnectionFailed.
send_failed(c) == [c EXCEPT !.pc = "done", !.out = ConnectionFailed]

\* reqwest::StatusCode::UNAUTHORIZED
UNAUTHORIZED == 401

\* on_response with the status test placed after the body is read: a 401 is
\* treated like any other status.
on_response_no_401(c, resp) == [c EXCEPT !.pc = "reading", !.resp = resp]

\* on_response with error_for_status() applied to the response: every status
\* from 400 on other than 401 fails the call before the body is read.
on_response_error_for_status(c, resp) ==
    IF resp.status = UNAUTHORIZED
    THEN [c EXCEPT !.pc = "done", !.resp = resp, !.out = Unauthorized]
    ELSE IF resp.status >= 400
    THEN [c EXCEPT !.pc = "done", !.resp = resp, !.out = ConnectionFailed]
    ELSE [c EXCEPT !.pc = "reading", !.resp = resp]

\* The response head arrives; a 401 returns Unauthorized at once.
on_response(c, resp) ==
    IF resp.status = UNAUTHORIZED
    THEN [c EXCEPT !.pc = "done", !.resp = resp, !.out = Unauthorized]
    ELSE [c EXCEPT !.pc = "reading", !.resp = resp]

\* resp.text().await? fails: ConnectionFailed.
text_failed(c) ==
    [c EXCEPT !.pc = "done", !.text = "failed", !.out = ConnectionFailed]

\* "error"
ErrorKey == T(<<"e", "r", "r", "o", "r">>)

\* error_field without as_str: any `error` member counts, a string or not.
error_field_any(value) ==
    IF get(value, ErrorKey).some
    THEN Some(IF get(value, ErrorKey).x.t = "String" THEN get(value, ErrorKey).x.s
              ELSE <<>>)
    ELSE None

\* error_field reading the member `err`.
error_field_err(value) ==
    IF get(value, T(<<"e", "r", "r">>)).some
    THEN as_str(get(value, T(<<"e", "r", "r">>)).x) ELSE None

\* value.get("error").and_then(|e| e.as_str())
error_field(value) ==
    IF get(value, ErrorKey).some THEN as_str(get(value, ErrorKey).x) ELSE None

\* after_text parsing the text as it arrived, unsanitized.
after_text_raw(text) ==
    LET parsed == from_str(text) IN
    IF ~parsed.ok THEN InvalidJson
    ELSE IF error_field(parsed.v).some
         THEN ExtensionError(error_field(parsed.v).x)
         ELSE CallOk(parsed.v)

\* Bridge::call from the body text on: sanitize, parse, look for `error`.
after_text(text) ==
    LET parsed == from_str(sanitize_str(text)) IN
    IF ~parsed.ok THEN InvalidJson
    ELSE IF error_field(parsed.v).some
         THEN ExtensionError(error_field(parsed.v).x)
         ELSE CallOk(parsed.v)

\* on_text working on a buffer the calls share: the body parsed is the one
\* the lowest slot holding a response received.
on_text_shared(c) ==
    [c EXCEPT !.pc = "done", !.text = "read",
              !.out = after_text(calls[CHOOSE j \in DOMAIN calls :
                                         /\ calls[j].resp.status # 0
                                         /\ \A k \in DOMAIN calls :
                                                calls[k].resp.status # 0 => j <= k
                                       ].resp.body)]

\* resp.text().await? yields the body: the rest of Bridge::call.
on_text(c) ==
    [c EXCEPT !.pc = "done", !.text = "read", !.out = after_text(c.resp.body)]

----------------------------------------------------------------------------
(* tools/mail.rs, compose.rs, filters.rs, contacts.rs: the forwarders.      *)
(* A forwarder's arguments are a record a, one field per parameter, each   *)
(* None or Some(value); a required parameter is always Some.  The payload  *)
(* json!({..}) is an object whose keys are the field names as written.     *)

\* to_json that sends an unset parameter as an empty string.
to_json_empty(opt) == IF opt.some THEN opt.x ELSE JString(<<>>)

\* Serialize for Option<T> inside json!: None is null, Some(x) is x.
to_json(opt) == IF opt.some THEN opt.x ELSE JNull

\* Option::unwrap_or
unwrap_or(opt, default) == IF opt.some THEN opt.x ELSE default

list_accounts(a) == [path |-> "/accounts/list", params |-> JObject(EmptyMap)]

list_folders(a) ==
    [path |-> "/folders/list",
     params |-> JObject([account_id |-> to_json(a.account_id),
                         folder_uri |-> to_json(a.folder_uri)])]

search_messages(a) ==
    [path |-> "/messages/search",
     params |-> JObject([query |-> to_json(a.query), folder |-> to_json(a.folder),
                         sender |-> to_json(a.sender),
                         recipient |-> to_json(a.recipient),
                         date_from |-> to_json(a.date_from),
                         date_to |-> to_json(a.date_to),
                         max_results |-> to_json(a.max_results)])]

get_message(a) ==
    [path |-> "/messages/get",
     params |-> JObject([message_id |-> a.message_id.x,
                         save_attachments |-> to_json(a.save_attachments)])]

get_recent_messages(a) ==
    [path |-> "/messages/recent",
     params |-> JObject([folder |-> to_json(a.folder), limit |-> to_json(a.limit),
                         unread_only |-> to_json(a.unread_only),
                         since_date |-> to_json(a.since_date)])]

update_message(a) ==
    [path |-> "/messages/update",
     params |-> JObject([message_id |-> a.message_id.x, read |-> to_json(a.read),
                         flagged |-> to_json(a.flagged),
                         move_to |-> to_json(a.move_to), trash |-> to_json(a.trash)])]

delete_messages(a) ==
    [path |-> "/messages/delete",
     params |-> JObject([message_ids |-> a.message_ids.x])]

create_folder(a) ==
    [path |-> "/folders/create",
     params |-> JObject([parent_uri |-> a.parent_uri.x, name |-> a.name.x])]

send_mail(a) ==
    [path |-> "/mail/send",
     params |-> JObject([to |-> a.to.x, subject |-> a.subject.x, body |-> a.body.x,
                         cc |-> to_json(a.cc), bcc |-> to_json(a.bcc),
                         from_identity |-> to_json(a.from_identity)])]

reply_to_message(a) ==
    [path |-> "/mail/reply",
     params |-> JObject([message_id |-> a.message_id.x, body |-> a.body.x,
                         reply_all |-> to_json(a.reply_all)])]

forward_message(a) ==
    [path |-> "/mail/forward",
     params |-> JObject([message_id |-> a.message_id.x, to |-> a.to.x,
                         body |-> to_json(a.body)])]

list_filters(a) ==
    [path |-> "/filters/list",
     params |-> JObject([account_id |-> to_json(a.account_id)])]

create_filter(a) ==
    [path |-> "/filters/create",
     params |-> JObject([account_id |-> a.account_id.x, name |-> a.name.x,
                         conditions |-> a.conditions.x, actions |-> a.actions.x,
                         enabled |-> unwrap_or(a.enabled, JBool(TRUE))])]

update_filter(a) ==
    [path |-> "/filters/update",
     params |-> JObject([account_id |-> a.account_id.x,
                         filter_index |-> a.filter_index.x,
                         name |-> to_json(a.name), enabled |-> to_json(a.enabled),
                         conditions |-> to_json(a.conditions),
                         actions |-> to_json(a.actions)])]

delete_filter(a) ==
    [path |-> "/filters/delete",
     params |-> JObject([account_id |-> a.account_id.x,
                         filter_index |-> a.filter_index.x])]

reorder_filters(a) ==
    [path |-> "/filters/reorder",
     params |-> JObject([account_id |-> a.account_id.x,
                         from_index |-> a.from_index.x, to_index |-> a.to_index.x])]

apply_filters(a) ==
    [path |-> "/filters/apply",
     params |-> JObject([account_id |-> a.account_id.x,
                         folder_uri |-> a.folder_uri.x])]

search_contacts(a) ==
    [path |-> "/contacts/search",
     params |-> JObject([query |-> a.query.x, limit |-> to_json(a.limit)])]

list_calendars(a) == [path |-> "/calendars/list", params |-> JObject(EmptyMap)]

create_event(a) ==
    [path |-> "/calendar/create-event",
     params |-> JObject([calendar_id |-> a.calendar_id.x, title |-> a.title.x,
                         start |-> a.start.x, end |-> a.end.x,
                         description |-> to_json(a.description),
                         location |-> to_json(a.location)])]

list_events(a) ==
    [path |-> "/calendars/list-events",
     params |-> JObject([calendar_id |-> to_json(a.calendar_id),
                         date_from |-> to_json(a.date_from),
                         date_to |-> to_json(a.date_to), limit |-> to_json(a.limit)])]

\* The parameters of each forwarder, with their types as declared.
Signatures ==
    [ list_accounts |-> EmptyMap,
      list_folders |-> [account_id |-> "Option<String>", folder_uri |-> "Option<String>"],
      search_messages |->
          [query |-> "Option<String>", folder |-> "Option<String>",
           sender |-> "Option<String>", recipient |-> "Option<String>",
           date_from |-> "Option<String>", date_to |-> "Option<String>",
           max_results |-> "Option<u32>"],
      get_message |-> [message_id |-> "String", save_attachments |-> "Option<bool>"],
      get_recent_messages |->
          [folder |-> "Option<String>", limit |-> "Option<u32>",
           unread_only |-> "Option<bool>", since_date |-> "Option<String>"],
      update_message |->
          [message_id |-> "String", read |-> "Option<bool>", flagged |-> "Option<bool>",
           move_to |-> "Option<String>", trash |-> "Option<bool>"],
      delete_messages |-> [message_ids |-> "Vec<String>"],
      create_folder |-> [parent_uri |-> "String", name |-> "String"],
      send_mail |->
          [to |-> "Vec<String>", subject |-> "String", body |-> "String",
           cc |-> "Option<Vec<String>>", bcc |-> "Option<Vec<String>>",
           from_identity |-> "Option<String>"],
      reply_to_message |->
          [message_id |-> "String", body |-> "String", reply_all |-> "Option<bool>"],
      forward_message |->
          [message_id |-> "String", to |-> "Vec<String>", body |-> "Option<String>"],
      list_filters |-> [account_id |-> "Option<String>"],
      create_filter |->
          [account_id |-> "String", name |-> "String", conditions |-> "Value",
           actions |-> "Value", enabled |-> "Option<bool>"],
      update_filter |->
          [account_id |-> "String", filter_index |-> "u32", name |-> "Option<String>",
           enabled |-> "Option<bool>", conditions |-> "Option<Value>",
           actions |-> "Option<Value>"],
      delete_filter |-> [account_id |-> "String", filter_index |-> "u32"],
      reorder_filters |->
          [account_id |-> "String", from_index |-> "u32", to_index |-> "u32"],
      apply_filters |-> [account_id |-> "String", folder_uri |-> "String"],
      search_contacts |-> [query |-> "String", limit |-> "Option<u32>"],
      list_calendars |-> EmptyMap,
      create_event |->
          [calendar_id |-> "String", title |-> "String", start |-> "String",
           end |-> "String", description |-> "Option<String>",
           location |-> "Option<String>"],
      list_events |->
          [calendar_id |-> "Option<String>", date_from |-> "Option<String>",
           date_to |-> "Option<String>", limit |-> "Option<u32>"] ]

\* The forwarder a tool call runs.
forward(tc) ==
    CASE tc.tool = "list_accounts" -> list_accounts(tc.args)
      [] tc.tool = "list_folders" -> list_folders(tc.args)
      [] tc.tool = "search_messages" -> search_messages(tc.args)
      [] tc.tool = "get_message" -> get_message(tc.args)
      [] tc.tool = "get_recent_messages" -> get_recent_messages(tc.args)
      [] tc.tool = "update_message" -> update_message(tc.args)
      [] tc.tool = "delete_messages" -> delete_messages(tc.args)
      [] tc.tool = "create_folder" -> create_folder(tc.args)
      [] tc.tool = "send_mail" -> send_mail(tc.args)
      [] tc.tool = "reply_to_message" -> reply_to_message(tc.args)
      [] tc.tool = "forward_message" -> forward_message(tc.args)
      [] tc.tool = "list_filters" -> list_filters(tc.args)
      [] tc.tool = "create_filter" -> create_filter(tc.args)
      [] tc.tool = "update_filter" -> update_filter(tc.args)
      [] tc.tool = "delete_filter" -> delete_filter(tc.args)
      [] tc.tool = "reorder_filters" -> reorder_filters(tc.args)
      [] tc.tool = "apply_filters" -> apply_filters(tc.args)
      [] tc.tool = "search_contacts" -> search_contacts(tc.args)
      [] tc.tool = "list_calendars" -> list_calendars(tc.args)
      [] tc.tool = "create_event" -> create_event(tc.args)
      [] tc.tool = "list_events" -> list_events(tc.args)

\* No forwarder runs in the slot.
\* The text of a serde_json::Error (its message, line and column), which the
\* parser of this model does not compute: one marker stands for it.
serde_error_text == T(<<"?">>)

\* impl Display for BridgeError, derived by thiserror from the #[error]
\* attributes.
to_string(e) ==
    CASE e.tag = "ConnectionFailed" ->
           T(<<"T", "h", "u", "n", "d", "e", "r", "b", "i", "r", "d", " ",
               "n", "o", "t", " ", "r", "e", "a", "c", "h", "a", "b", "l", "e", " ",
               "emdash", " ", "i", "s", " ", "i", "t", " ",
               "r", "u", "n", "n", "i", "n", "g", " ", "w", "i", "t", "h", " ",
               "t", "h", "e", " ", "M", "C", "P", " ",
               "e", "x", "t", "e", "n", "s", "i", "o", "n", "?">>)
      [] e.tag = "ExtensionError" ->
           T(<<"E", "x", "t", "e", "n", "s", "i", "o", "n", " ",
               "e", "r", "r", "o", "r", ":", " ">>) \o e.msg
      [] e.tag = "InvalidJson" ->
           T(<<"I", "n", "v", "a", "l", "i", "d", " ", "J", "S", "O", "N", " ",
               "f", "r", "o", "m", " ", "e", "x", "t", "e", "n", "s", "i", "o", "n",
               ":", " ">>) \o serde_error_text
      [] e.tag = "Unauthorized" ->
           T(<<"U", "n", "a", "u", "t", "h", "o", "r", "i", "z", "e", "d", " ",
               "emdash", " ", "a", "u", "t", "h", " ", "t", "o", "k", "e", "n", " ",
               "m", "i", "s", "m", "a", "t", "c", "h">>)

\* McpError::internal_error(message, data)
internal_error(message, data) ==
    [code |-> "INTERNAL_ERROR", message |-> message, data |-> data]

\* bridge_err that reports every failure under one fixed message.
bridge_err_fixed(e) == internal_error(to_string(ConnectionFailed), None)

\* bridge_err
bridge_err(e) == internal_error(to_string(e), None)

\* The decimal digits of an unsigned number.
RECURSIVE itoa(_)
itoa(n) == IF n < 10 THEN <<48 + n>> ELSE itoa(n \div 10) \o <<48 + (n % 10)>>

\* One hexadecimal digit, in lower case.
hex(d) == IF d < 10 THEN 48 + d ELSE 87 + d

\* serde_json's escape of one character of a string: the short escapes, \u00XX
\* for the other characters below 0x20, everything else as it is.
escape(ch) ==
    CASE ch = 34 -> <<92, 34>>
      [] ch = 92 -> <<92, 92>>
      [] ch = 8 -> <<92, 98>>
      [] ch = 12 -> <<92, 102>>
      [] ch = 10 -> <<92, 110>>
      [] ch = 13 -> <<92, 114>>
      [] ch = 9 -> <<92, 116>>
      [] ch < 32 /\ ch \notin {8, 9, 10, 12, 13} ->
           <<92, 117, 48, 48, hex(ch \div 16), hex(ch % 16)>>
      [] OTHER -> <<ch>>

RECURSIVE escape_str(_)
escape_str(str) ==
    IF str = <<>> THEN <<>> ELSE escape(Head(str)) \o escape_str(Tail(str))

\* A string between quotes, escaped.
format_str(str) == <<34>> \o escape_str(str) \o <<34>>

\* PrettyFormatter's indent: two spaces for each level.
RECURSIVE indent(_)
indent(n) == IF n = 0 THEN <<>> ELSE <<32, 32>> \o indent(n - 1)

\* The order of the keys of a Map, a BTreeMap<String, Value>: by bytes, which
\* for UTF-8 is by scalar values.
RECURSIVE key_lt(_, _)
key_lt(a, b) ==
    IF a = <<>> THEN b # <<>>
    ELSE IF b = <<>> THEN FALSE
    ELSE IF Head(a) # Head(b) THEN Head(a) < Head(b)
    ELSE key_lt(Tail(a), Tail(b))

\* The keys of a map in their order.
RECURSIVE sorted_keys(_)
sorted_keys(ks) ==
    IF ks = {} THEN <<>>
    ELSE LET k == CHOOSE x \in ks : \A y \in ks \ {x} : key_lt(x, y)
         IN <<k>> \o sorted_keys(ks \ {k})

RECURSIVE pretty(_, _), pretty_elems(_, _, _), pretty_members(_, _, _)

\* Serializer::with_formatter(PrettyFormatter) on a Value at a nesting level.
pretty(v, level) ==
    CASE v.t = "Null" -> <<110, 117, 108, 108>>
      [] v.t = "Bool" -> IF v.b THEN <<116, 114, 117, 101>>
                         ELSE <<102, 97, 108, 115, 101>>
      [] v.t = "Number" -> itoa(v.n)
      [] v.t = "String" -> format_str(v.s)
      [] v.t = "Array" ->
           IF v.a = <<>> THEN <<91, 93>>
           ELSE <<91>> \o pretty_elems(v.a, 1, level + 1)
                \o <<10>> \o indent(level) \o <<93>>
      [] v.t = "Object" ->
           IF DOMAIN v.m = {} THEN <<123, 125>>
           ELSE <<123>> \o pretty_members(v.m, sorted_keys(DOMAIN v.m), level + 1)
                \o <<10>> \o indent(level) \o <<125>>

\* The elements of an array from the i-th: each on its own line, a comma
\* after all but the last.
pretty_elems(a, i, level) ==
    IF i > Len(a) THEN <<>>
    ELSE (IF i = 1 THEN <<10>> ELSE <<44, 10>>) \o indent(level)
         \o pretty(a[i], level) \o pretty_elems(a, i + 1, level)

\* The members of an object in key order, as "key": value.
pretty_members(m, ks, level) ==
    IF ks = <<>> THEN <<>>
    ELSE (IF Len(ks) = Cardinality(DOMAIN m) THEN <<10>> ELSE <<44, 10>>)
         \o indent(level) \o format_str(Head(ks)) \o <<58, 32>>
         \o pretty(m[Head(ks)], level) \o pretty_members(m, Tail(ks), level)

\* serde_json::to_string_pretty; it cannot fail on a Value.
to_string_pretty(v) == pretty(v, 0)

\* Content::text and CallToolResult::success
Content_text(text) == [type |-> "text", text |-> text]
success(content) == [is_error |-> FALSE, content |-> content]

\* result_text
result_text(v) == success(<<Content_text(to_string_pretty(v))>>)

\* The forwarder's Result<CallToolResult, McpError>
NoRes == [tag |-> "none"]
FwdOk(r) == [tag |-> "Ok", result |-> r]
FwdErr(e) == [tag |-> "Err", error |-> e]

\* A forwarder that hands out what it has of the response when the call
\* failed after a body was read.
finish_partial(out) ==
    IF out.tag = "Ok" THEN FwdOk(result_text(out.value))
    ELSE FwdOk(result_text(JString(to_string(out))))

\* bridge.call(..).await.map_err(bridge_err)?; Ok(result_text(r)): the tail
\* every forwarder shares.
finish(out) ==
    IF out.tag = "Ok" THEN FwdOk(result_text(out.value))
    ELSE FwdErr(bridge_err(out))

NoFwd == [tool |-> "none", args |-> EmptyMap, res |-> NoRes]

----------------------------------------------------------------------------
(* Inputs *)

\* The values a parameter of each type takes in the model: one value where
\* the parameter is required, unset or one value (for a flag, either value)
\* where it is optional.
SampleText == JString(T(<<"a">>))
ArgValues(type) ==
    CASE type = "String" -> {Some(SampleText)}
      [] type = "u32" -> {Some(JNumber(1))}
      [] type = "Vec<String>" -> {Some(JArray(<<SampleText>>))}
      [] type = "Value" -> {Some(JArray(<<>>))}
      [] type = "Option<String>" -> {None, Some(SampleText)}
      [] type = "Option<u32>" -> {None, Some(JNumber(1))}
      [] type = "Option<bool>" -> {None, Some(JBool(FALSE)), Some(JBool(TRUE))}
      [] type = "Option<Vec<String>>" -> {None, Some(JArray(<<SampleText>>))}
      [] type = "Option<Value>" -> {None, Some(JArray(<<>>))}

OptionalTypes ==
    {"Option<String>", "Option<u32>", "Option<bool>", "Option<Vec<String>>",
     "Option<Value>"}

\* Every call of a tool with arguments of the declared types.
CallsOf(tool) ==
    { [tool |-> tool, args |-> a] :
        a \in { f \in [DOMAIN Signatures[tool] -> UNION {ArgValues(Signatures[tool][k]) :
                                                          k \in DOMAIN Signatures[tool]}] :
                  \A k \in DOMAIN Signatures[tool] : f[k] \in ArgValues(Signatures[tool][k]) } }

ToolCalls == UNION {CallsOf(tool) : tool \in DOMAIN Signatures}

Slots == 1..MaxCalls

\* The home directories of the model.
UserHome == <<"home", "u">>
RootHome == <<"root">>

\* Contents of a token file.
TokenFileContents ==
    { <<>>,
      T(<<"h">>),
      T(<<" ", "h", "LF">>),
      T(<<"s">>),
      T(<<"TAB", "s", "CR", "LF">>),
      T(<<"NBSP", "a", " ", "b", "NEL">>),
      T(<<"a", "LF", "b", "LF">>) }

FileStates == {Missing, Unreadable} \cup {Text(c) : c \in TokenFileContents}

\* The tool calls behind the calls of the whole-process model: list_accounts,
\* and list_folders with both optional parameters unset.
CallArgs ==
    { tc \in ToolCalls :
        \/ tc.tool = "list_accounts"
        \/ tc.tool = "list_folders" /\ \A k \in DOMAIN tc.args : ~tc.args[k].some }

\* Response bodies the extension (or whatever answers on the port) may send.
Q == "\""
ErrorName == <<Q, "e", "r", "r", "o", "r", Q>>
Bodies ==
    { <<>>,
      T(<<"<", "h", "1", ">">>),
      T(<<"{", Q, "a", "c", "c", "o", "u", "n", "t", "s", Q, ":", " ", "[", "]", "}">>),
      T(<<"{">> \o ErrorName \o <<":", Q, "n", "o", Q, "}">>),
      T(<<"{">> \o ErrorName \o <<":", Q, "n", "NUL", "o", "DEL", Q, "}", "LF">>),
      T(<<"{">> \o ErrorName \o <<":", Q, "n", "TAB", "o", Q, "}">>),
      T(<<"{">> \o ErrorName \o <<":", Q, "n", "o", Q, "}", "x">>),
      T(<<"{">> \o ErrorName \o <<":", "n", "u", "l", "l", "}">>),
      T(<<"{">> \o ErrorName \o <<":", "7", "}">>),
      T(<<"{">> \o ErrorName \o <<":", "f", "a", "l", "s", "e", "}">>),
      T(<<"{">> \o ErrorName \o <<":", "[", Q, "n", "o", Q, "]", "}">>),
      T(<<"{">> \o ErrorName \o <<":", "{">> \o ErrorName \o <<":", Q, "n", "o", Q, "}", "}">>),
      T(<<"{">> \o ErrorName \o <<":", "1", ",">> \o ErrorName \o <<":", Q, "n", "o", Q, "}">>),
      T(<<"{">> \o ErrorName \o <<":", Q, "n", "o", Q, ",">> \o ErrorName \o <<":", "1", "}">>),
      T(<<"{", Q, "a", Q, ":", "1", ",">> \o ErrorName \o <<":", Q, Q, "}">>),
      T(<<"{", "BEL", Q, "a", Q, ":", "{">> \o ErrorName \o <<":", Q, "n", "o", Q, "}", "}">>),
      T(<<"[", "]">>),
      T(<<"[">> \o ErrorName \o <<",", "1", "]">>),
      T(ErrorName),
      T(<<"2", "0">>),
      T(<<"n", "u", "l", "l">>),
      T(<<"t", "r", "u", "e", "SOH">>) }

Statuses == {200, 401, 404, 500}

\* Every response of the model: any status with any body.
AllResponses == [status : Statuses, body : Bodies]

----------------------------------------------------------------------------
(* main.rs and the calls the server makes on the shared Bridge *)

\* The companion extension writes a fresh token to the home-root file, as it
\* does whenever it starts; this may happen at any time while the process
\* lives.
ExtensionWritesToken ==
    /\ main_pc \notin {"aborted", "exited"}
    /\ fs[candidates(UserHome)[1]] # Text(T(<<"x", "LF">>))
    /\ fs' = [fs EXCEPT ![candidates(UserHome)[1]] = Text(T(<<"x", "LF">>))]
    /\ UNCHANGED <<home, main_pc, token_res, bridge, calls, ninv, fwd, san_in, san_out>>

\* FindToken run again whenever the server is up, as a per-call lookup would.
FindToken_again ==
    /\ main_pc \in {"start", "serving"}
    /\ token_res' = find_token
    /\ main_pc' = IF main_pc = "serving" THEN "serving"
                  ELSE IF find_token.tag = "Ok" THEN "resolved" ELSE "aborted"
    /\ UNCHANGED <<home, fs, bridge, calls, ninv, fwd, san_in, san_out>>

\* let token = auth::find_token().context(..)?;
FindToken ==
    /\ main_pc = "start"
    /\ token_res' = find_token
    /\ main_pc' = IF find_token.tag = "Ok" THEN "resolved" ELSE "aborted"
    /\ UNCHANGED <<home, fs, bridge, calls, ninv, fwd, san_in, san_out>>

\* let bridge = Arc::new(Bridge::new(token));
NewBridge ==
    /\ main_pc = "resolved"
    /\ bridge' = new(token_res.token)
    /\ main_pc' = "constructed"
    /\ UNCHANGED <<home, fs, token_res, calls, ninv, fwd, san_in, san_out>>

\* rmcp::serve_server(handler, stdio()).await succeeds: tools can be called.
ServeOk ==
    /\ main_pc = "constructed"
    /\ main_pc' = "serving"
    /\ UNCHANGED <<home, fs, token_res, bridge, calls, ninv, fwd, san_in, san_out>>

\* serve_server fails: main returns the error.
ServeFails ==
    /\ main_pc = "constructed"
    /\ main_pc' = "exited"
    /\ UNCHANGED <<home, fs, token_res, bridge, calls, ninv, fwd, san_in, san_out>>

\* service.waiting() returns (EOF on stdin): main returns and the runtime,
\* with every call still in flight, is dropped.
Disconnect ==
    /\ main_pc = "serving"
    /\ main_pc' = "exited"
    /\ UNCHANGED <<home, fs, token_res, bridge, calls, ninv, fwd, san_in, san_out>>

\* A tool is called in slot i: its forwarder builds the path and the payload
\* and invokes Bridge::call, which runs to its send() (bridge.rs lines 33-38).
CallStart(i, tc) ==
    /\ main_pc = "serving"
    /\ calls[i].pc = "idle"
    /\ ninv < MaxInvocations
    /\ calls' = [calls EXCEPT ![i] = send(bridge, forward(tc).path, forward(tc).params)]
    /\ fwd' = [fwd EXCEPT ![i] = [tool |-> tc.tool, args |-> tc.args, res |-> NoRes]]
    /\ ninv' = ninv + 1
    /\ UNCHANGED <<home, fs, main_pc, token_res, bridge, san_in, san_out>>

\* The transport fails before a response head arrives.
SendFails(i) ==
    /\ main_pc = "serving"
    /\ calls[i].pc = "sending"
    /\ calls' = [calls EXCEPT ![i] = send_failed(calls[i])]
    /\ UNCHANGED <<home, fs, main_pc, token_res, bridge, ninv, fwd, san_in, san_out>>

\* A response head arrives: lines 39-43.
Respond(i, resp) ==
    /\ main_pc = "serving"
    /\ calls[i].pc = "sending"
    /\ calls' = [calls EXCEPT ![i] = on_response(calls[i], resp)]
    /\ UNCHANGED <<home, fs, main_pc, token_res, bridge, ninv, fwd, san_in, san_out>>

\* Reading the body fails: line 45.
TextFails(i) ==
    /\ main_pc = "serving"
    /\ calls[i].pc = "reading"
    /\ calls' = [calls EXCEPT ![i] = text_failed(calls[i])]
    /\ UNCHANGED <<home, fs, main_pc, token_res, bridge, ninv, fwd, san_in, san_out>>

\* The body arrives: lines 45-52.
TextOk(i) ==
    /\ main_pc = "serving"
    /\ calls[i].pc = "reading"
    /\ calls' = [calls EXCEPT ![i] = on_text(calls[i])]
    /\ UNCHANGED <<home, fs, main_pc, token_res, bridge, ninv, fwd, san_in, san_out>>

\* Bridge::call has returned to its forwarder, which maps the outcome to its
\* own result and returns.
Return(i) ==
    /\ main_pc = "serving"
    /\ calls[i].pc = "done"
    /\ calls' = [calls EXCEPT ![i].pc = "returned"]
    /\ fwd' = [fwd EXCEPT ![i].res = finish(calls[i].out)]
    /\ UNCHANGED <<home, fs, main_pc, token_res, bridge, ninv, san_in, san_out>>

\* The tool handler hands the forwarder's result to the server, which replies;
\* the slot is free for the next invocation.
Reply(i) ==
    /\ main_pc = "serving"
    /\ calls[i].pc = "returned"
    /\ calls' = [calls EXCEPT ![i] = IdleCall]
    /\ fwd' = [fwd EXCEPT ![i] = NoFwd]
    /\ UNCHANGED <<home, fs, main_pc, token_res, bridge, ninv, san_in, san_out>>

\* sanitize_str applied to the input, and then to its own result.
Sanitize ==
    /\ Len(san_out) < 2
    /\ san_out' = Append(san_out, sanitize_str(IF san_out = <<>> THEN san_in
                                                ELSE san_out[Len(san_out)]))
    /\ UNCHANGED <<home, fs, main_pc, token_res, bridge, calls, fwd, ninv, san_in>>

----------------------------------------------------------------------------
(* Specifications *)

\* The whole process: startup from what the machine holds, then any number
\* of calls in flight at once.  The responses are one of each kind that
\* takes its own path through Bridge::call.
Responses ==
    { r \in AllResponses :
        \/ r.status = 401 /\ r.body = <<>>
        \/ r.status = 200 /\ r.body = T(<<"[", "]">>)
        \/ r.status = 500 /\ r.body = T(<<"<", "h", "1", ">">>) }

Init ==
    /\ home \in {NoHome, SomeHome(UserHome)}
    /\ fs \in { f \in [{candidates(UserHome)[1], candidates(UserHome)[2]} -> FileStates] :
                 /\ f[candidates(UserHome)[1]] \in {Missing, Text(T(<<" ", "h", "LF">>))}
                 /\ f[candidates(UserHome)[2]] \in {Unreadable, Text(T(<<"s">>))} }
    /\ main_pc = "start"
    /\ token_res = NoResult
    /\ bridge = NoBridge
    /\ calls = [i \in Slots |-> IdleCall]
    /\ fwd = [i \in Slots |-> NoFwd]
    /\ ninv = 0
    /\ san_in = <<>>
    /\ san_out = <<>>

Next ==
    \/ ExtensionWritesToken
    \/ FindToken
    \/ NewBridge
    \/ ServeOk
    \/ ServeFails
    \/ Disconnect
    \/ \E i \in Slots, args \in CallArgs : CallStart(i, args)
    \/ \E i \in Slots : SendFails(i)
    \/ \E i \in Slots, resp \in Responses : Respond(i, resp)
    \/ \E i \in Slots : TextFails(i)
    \/ \E i \in Slots : TextOk(i)
    \/ \E i \in Slots : Return(i)
    \/ \E i \in Slots : Reply(i)

Spec == Init /\ [][Next]_vars

\* One Bridge at a time under every response: the process from the point
\* where find_token has returned a token, the calls made one after another.
ResolvedTokens == {trim(c) : c \in TokenFileContents}

CallInit ==
    /\ home = SomeHome(UserHome)
    /\ fs = [p \in {candidates(UserHome)[1], candidates(UserHome)[2]} |-> Missing]
    /\ main_pc = "resolved"
    /\ token_res \in {Ok(t) : t \in ResolvedTokens}
    /\ bridge = NoBridge
    /\ calls = [i \in Slots |-> IdleCall]
    /\ fwd = [i \in Slots |-> NoFwd]
    /\ ninv = 0
    /\ san_in = <<>>
    /\ san_out = <<>>

CallNext ==
    \/ NewBridge
    \/ ServeOk
    \/ \E args \in CallArgs : CallStart(1, args)
    \/ SendFails(1)
    \/ \E resp \in AllResponses : Respond(1, resp)
    \/ TextFails(1)
    \/ TextOk(1)
    \/ Return(1)
    \/ Reply(1)

CallSpec == CallInit /\ [][CallNext]_vars

\* A response of several members, nested, with an escape in a string:
\* {"b":[1,"a\n"],"a":{}}
NestedBody ==
    T(<<"{", Q, "b", Q, ":", "[", "1", ",", Q, "a", "\\", "n", Q, "]", ",",
        Q, "a", Q, ":", "{", "}", "}">>)

\* What the extension answers to the forwarders.
FwdResponses ==
    Responses \cup
        { [status |-> 200, body |-> NestedBody],
          [status |-> 200,
           body |-> T(<<"{">> \o ErrorName \o <<":", Q, "n", "o", Q, "}">>)] }

\* Every forwarder under every choice of its optional parameters: the process
\* from the point where find_token has returned a token, the tools called one
\* after another.
FwdInit ==
    /\ home = SomeHome(UserHome)
    /\ fs = [p \in {candidates(UserHome)[1], candidates(UserHome)[2]} |-> Missing]
    /\ main_pc = "resolved"
    /\ token_res = Ok(T(<<"h">>))
    /\ bridge = NoBridge
    /\ calls = [i \in Slots |-> IdleCall]
    /\ fwd = [i \in Slots |-> NoFwd]
    /\ ninv = 0
    /\ san_in = <<>>
    /\ san_out = <<>>

FwdNext ==
    \/ NewBridge
    \/ ServeOk
    \/ \E tc \in ToolCalls : CallStart(1, tc)
    \/ SendFails(1)
    \/ \E resp \in FwdResponses : Respond(1, resp)
    \/ TextFails(1)
    \/ TextOk(1)
    \/ Return(1)
    \/ Reply(1)

FwdSpec == FwdInit /\ [][FwdNext]_vars

\* find_token_in on every home directory and filesystem of the model.
AuthPaths ==
    { candidates(h)[k] : h \in {UserHome, RootHome}, k \in 1..2 }

AuthInit ==
    /\ home \in {SomeHome(UserHome), SomeHome(RootHome)}
    /\ fs \in [AuthPaths -> FileStates]
    /\ main_pc = "start"
    /\ token_res = NoResult
    /\ bridge = NoBridge
    /\ calls = [i \in Slots |-> IdleCall]
    /\ fwd = [i \in Slots |-> NoFwd]
    /\ ninv = 0
    /\ san_in = <<>>
    /\ san_out = <<>>

AuthNext == FindToken

AuthSpec == AuthInit /\ [][AuthNext]_vars

\* sanitize_str on every string of at most MaxLen of these scalars.
SanScalars == {0, 8, 9, 10, 11, 12, 13, 14, 31, 32, 97, 127, 128, 26085}

RECURSIVE Strings(_)
Strings(n) ==
    IF n = 0 THEN {<<>>}
    ELSE Strings(n - 1) \cup
         {Append(s, c) : s \in {x \in Strings(n - 1) : Len(x) = n - 1}, c \in SanScalars}

SanInit ==
    /\ home = NoHome
    /\ fs = [p \in {candidates(UserHome)[1], candidates(UserHome)[2]} |-> Missing]
    /\ main_pc = "start"
    /\ token_res = NoResult
    /\ bridge = NoBridge
    /\ calls = [i \in Slots |-> IdleCall]
    /\ fwd = [i \in Slots |-> NoFwd]
    /\ ninv = 0
    /\ san_in \in Strings(MaxLen)
    /\ san_out = <<>>

SanNext == Sanitize

SanSpec == SanInit /\ [][SanNext]_vars

----------------------------------------------------------------------------
(* Properties of Bridge::call *)

\* The text "Bearer ", scalar by scalar.
BearerSpace == <<66, 101, 97, 114, 101, 114, 32>>

\* The value the sanitized body of call c parses to, if it parses.
ParsedBody(c) == from_str(sanitize_str(c.resp.body))

\* The sanitized body of c parses to an object whose top-level `error`
\* member is a string.
HasErrorString(c) ==
    /\ ParsedBody(c).ok
    /\ ParsedBody(c).v.t = "Object"
    /\ <<101, 114, 114, 111, 114>> \in DOMAIN ParsedBody(c).v.m
    /\ ParsedBody(c).v.m[<<101, 114, 114, 111, 114>>].t = "String"

\* C1: a call whose response has status 401 returns Unauthorized whatever the
\* response body is, and never reads (so never sanitizes or parses) the body.
C1_Unauthorized ==
    \A i \in Slots :
        calls[i].resp.status = 401 =>
            /\ calls[i].pc \in {"done", "returned"}
            /\ calls[i].out = Unauthorized
            /\ calls[i].text = "unread"

\* C1 happens: a 401 whose body is valid JSON with a string `error` member.
C1_Witness ==
    \E i \in Slots :
        /\ calls[i].resp.status = 401
        /\ HasErrorString(calls[i])
        /\ calls[i].out = Unauthorized

\* C2: a call whose response is not 401 and whose sanitized body parses to an
\* object with a string-valued top-level `error` member fails with
\* ExtensionError carrying exactly that string, never with success.
C2_ExtensionError ==
    \A i \in Slots :
        (calls[i].text = "read" /\ HasErrorString(calls[i])) =>
            /\ calls[i].out.tag = "ExtensionError"
            /\ calls[i].out.msg = ParsedBody(calls[i]).v.m[<<101, 114, 114, 111, 114>>].s

\* C2 happens: status 200, the body {"error":"no"}, and ExtensionError("no").
C2_Witness ==
    \E i \in Slots :
        /\ calls[i].text = "read"
        /\ calls[i].resp.status = 200
        /\ HasErrorString(calls[i])
        /\ calls[i].out = [tag |-> "ExtensionError", msg |-> <<110, 111>>]

\* C3: a call whose response is not 401 and whose sanitized body parses as
\* JSON, to a value that is not an object with a string-valued `error`
\* member, returns Ok with exactly the parsed value.
C3_OkValue ==
    \A i \in Slots :
        (calls[i].text = "read" /\ ParsedBody(calls[i]).ok
            /\ ~HasErrorString(calls[i])) =>
            /\ calls[i].out.tag = "Ok"
            /\ calls[i].out.value = ParsedBody(calls[i]).v

\* C3 happens: an object whose `error` member is a number comes back as Ok.
C3_Witness ==
    \E i \in Slots :
        /\ calls[i].text = "read"
        /\ calls[i].out.tag = "Ok"
        /\ calls[i].out.value.t = "Object"
        /\ <<101, 114, 114, 111, 114>> \in DOMAIN calls[i].out.value.m
        /\ calls[i].out.value.m[<<101, 114, 114, 111, 114>>].t = "Number"

\* C4: every request a call issues, after any earlier calls, carries the
\* Authorization header "Bearer " followed by exactly the token the Bridge
\* was constructed with.
C4_BearerToken ==
    \A i \in Slots :
        calls[i].req.sent =>
            calls[i].req.authorization = BearerSpace \o token_res.token

\* C4 happens: the second call of a run has its request out, the first having
\* ended, and the token is not empty.
C4_Witness ==
    \E i \in Slots :
        /\ ninv = 2
        /\ calls[i].req.sent
        /\ calls[i].pc = "sending"
        /\ Len(token_res.token) > 0

\* C10: an invocation of Bridge::call issues at most one request, whatever
\* its outcome, and an outcome drawn from a response comes with the one
\* request this invocation sent.
C10_SingleAttempt ==
    \A i \in Slots :
        /\ calls[i].nreq <= 1
        /\ calls[i].out.tag \in {"Unauthorized", "InvalidJson", "ExtensionError", "Ok"}
             => (calls[i].nreq = 1 /\ calls[i].req.sent)
        /\ calls[i].resp.status # 0 => calls[i].nreq = 1

\* C10 happens: two invocations are over, one failed with ConnectionFailed
\* after its request went out and one with InvalidJson, each with one request.
C10_Witness ==
    /\ MaxCalls >= 2
    /\ calls[1].pc = "done" /\ calls[1].out = ConnectionFailed /\ calls[1].nreq = 1
    /\ calls[2].pc = "done" /\ calls[2].out = InvalidJson /\ calls[2].nreq = 1

----------------------------------------------------------------------------
(* Properties of find_token_in *)

\* The two files find_token_in is to look at under the home directory.
HomeFile == home.path \o <<".thunderbird-mcp-auth">>
SnapFile == home.path \o <<"snap", "thunderbird", "common", ".thunderbird-mcp-auth">>

Readable(p) == fs[p].kind = "text"

\* Unicode White_Space.
WhiteSpace ==
    {9, 10, 11, 12, 13, 32, 133, 160, 5760, 8232, 8233, 8239, 8287, 12288}
        \cup (8192..8202)

\* r is c without its leading and trailing whitespace.
IsTrimOf(r, c) ==
    \E a \in 0..Len(c) : \E b \in a..Len(c) :
        /\ r = SubSeq(c, a + 1, b)
        /\ \A k \in 1..a : c[k] \in WhiteSpace
        /\ \A k \in (b + 1)..Len(c) : c[k] \in WhiteSpace
        /\ r # <<>> => (r[1] \notin WhiteSpace /\ r[Len(r)] \notin WhiteSpace)

\* find_token_in has returned.
Resolved == token_res # NoResult

\* C5: when both candidate files are readable, find_token_in returns the
\* trimmed content of the home-root file, and, where the snap file trims
\* to a different text, not the trimmed content of the snap file.
C5_HomePreferred ==
    (Resolved /\ Readable(HomeFile) /\ Readable(SnapFile)) =>
        /\ token_res.tag = "Ok"
        /\ IsTrimOf(token_res.token, fs[HomeFile].content)
        /\ (\E r \in ResolvedTokens :
                IsTrimOf(r, fs[SnapFile].content) /\ ~IsTrimOf(r, fs[HomeFile].content))
             => ~IsTrimOf(token_res.token, fs[SnapFile].content)

\* C5 happens: both files are readable, the home-root file's content needs
\* trimming, the snap file's content trims to another token, and the call
\* has returned.
C5_Witness ==
    /\ Resolved /\ Readable(HomeFile) /\ Readable(SnapFile)
    /\ token_res.tag = "Ok"
    /\ ~IsTrimOf(token_res.token, fs[SnapFile].content)
    /\ token_res.token # fs[HomeFile].content

\* C6: when exactly one candidate file is readable, find_token_in returns Ok
\* with that file's content less its leading and trailing whitespace; a
\* missing or unreadable home-root file falls through to the snap file.
C6_OnlyOneReadable ==
    /\ (Resolved /\ Readable(HomeFile) /\ ~Readable(SnapFile)) =>
           (token_res.tag = "Ok" /\ IsTrimOf(token_res.token, fs[HomeFile].content))
    /\ (Resolved /\ ~Readable(HomeFile) /\ Readable(SnapFile)) =>
           (token_res.tag = "Ok" /\ IsTrimOf(token_res.token, fs[SnapFile].content))

\* C6 happens: the home-root file is unreadable, the snap file ends in a
\* newline, and the snap file's trimmed content came back.
C6_Witness ==
    /\ Resolved
    /\ fs[HomeFile].kind = "unreadable"
    /\ Readable(SnapFile)
    /\ Len(fs[SnapFile].content) > 0
    /\ fs[SnapFile].content[Len(fs[SnapFile].content)] = 10
    /\ token_res.tag = "Ok"
    /\ Len(token_res.token) > 0

\* C7: when neither candidate file is readable, find_token_in fails with
\* NotFound whose paths are exactly the home-root path and then the snap
\* path, and returns no token.
C7_NotFound ==
    (Resolved /\ ~Readable(HomeFile) /\ ~Readable(SnapFile)) =>
        token_res = [tag |-> "NotFound", paths |-> <<HomeFile, SnapFile>>]

\* C7 happens: one file missing, the other unreadable, while the other home
\* directory holds a readable token file.
C7_Witness ==
    /\ Resolved
    /\ fs[HomeFile].kind = "missing"
    /\ fs[SnapFile].kind = "unreadable"
    /\ \E p \in DOMAIN fs : fs[p].kind = "text"
    /\ token_res.tag = "NotFound"

----------------------------------------------------------------------------
(* Properties of sanitize_str *)

\* The scalars the sanitizer is to keep.
Allowed(c) == c \in {9, 10, 13} \/ (c >= 32 /\ c # 127)

\* The positions of s that hold an allowed scalar.
KeptPositions(s) == {k \in 1..Len(s) : Allowed(s[k])}

\* out is the subsequence of s made of its allowed scalars, in order: its
\* n-th scalar is the one at the n-th kept position of s.
IsAllowedSubsequence(out, s) ==
    /\ Len(out) = Cardinality(KeptPositions(s))
    /\ \A k \in KeptPositions(s) :
           out[Cardinality({j \in KeptPositions(s) : j <= k})] = s[k]

\* C8: sanitize_str(s) is the subsequence of s, in order, of exactly the
\* scalars 0x09, 0x0A, 0x0D and those >= 0x20 other than 0x7F; every other
\* scalar is dropped without replacement, every scalar >= 0x80 is kept.
C8_KeepsExactlyAllowed ==
    Len(san_out) >= 1 => IsAllowedSubsequence(san_out[1], san_in)

\* C8 happens: an input of a dropped control character, a kept non-ASCII
\* scalar and DEL has been sanitized.
C8_Witness ==
    /\ Len(san_out) >= 1
    /\ Len(san_in) = 3
    /\ san_in[1] < 32 /\ san_in[1] \notin {9, 10, 13}
    /\ san_in[2] >= 128
    /\ san_in[3] = 127
    /\ san_out[1] = <<san_in[2]>>

\* C9: sanitize_str applied twice gives what it gives applied once, and
\* sanitize_str("") is "".
C9_Idempotent ==
    /\ Len(san_out) = 2 => san_out[2] = san_out[1]
    /\ (Len(san_out) >= 1 /\ san_in = <<>>) => san_out[1] = <<>>

\* C9 happens: a string with two dropped scalars has been sanitized twice.
C9_Witness ==
    /\ Len(san_out) = 2
    /\ Len(san_in) - Len(san_out[1]) >= 2
    /\ Len(san_out[1]) >= 1

----------------------------------------------------------------------------
(* Properties of the process *)

\* No call has been made and no request built.
NoCallYet ==
    /\ ninv = 0
    /\ \A i \in Slots : calls[i].pc = "idle" /\ ~calls[i].req.sent

\* What holds of token resolution in every state: the Bridge and the calls
\* come after a successful resolution, and a failed one aborts the process
\* with no Bridge, no server and no request.
ResolvedFirst ==
    /\ main_pc = "start" <=> token_res = NoResult
    /\ bridge.built =>
           (token_res.tag = "Ok" /\ bridge.token = token_res.token)
    /\ ~NoCallYet => (bridge.built /\ main_pc \in {"serving", "exited"})
    /\ main_pc \in {"serving", "exited"} => bridge.built
    /\ token_res.tag \in {"NoHome", "NotFound"} =>
           (main_pc = "aborted" /\ ~bridge.built /\ NoCallYet)
    /\ main_pc = "aborted" => token_res.tag \in {"NoHome", "NotFound"}

\* C11: find_token runs exactly once, before the Bridge is constructed and
\* before any call; if it fails the process aborts with no Bridge, no server
\* and no request; and the token is never resolved again: once find_token has
\* returned, its result, and the token the Bridge holds, stay what they are,
\* whatever happens to the token files.
C11_ResolvedOnce ==
    ResolvedFirst /\
    [][ /\ ResolvedFirst'
        /\ token_res # NoResult => token_res' = token_res
        /\ bridge.built => bridge' = bridge
        /\ main_pc # "start" => main_pc' # "start" ]_vars

\* C11 happens: the token file has been rewritten since startup, so that
\* find_token would now give another token, and a call has sent its request
\* with the token resolved at startup.
C11_Witness ==
    /\ main_pc = "serving"
    /\ token_res.tag = "Ok"
    /\ find_token # token_res
    /\ \E i \in Slots :
           /\ calls[i].req.sent
           /\ calls[i].req.authorization = BearerSpace \o token_res.token

----------------------------------------------------------------------------
(* Properties of the forwarders *)

\* The parameters of the forwarder in slot i that are optional and that the
\* caller left unset.
UnsetOptionals(i) ==
    { k \in DOMAIN fwd[i].args :
        Signatures[fwd[i].tool][k] \in OptionalTypes /\ ~fwd[i].args[k].some }

\* The request body of slot i carries field k as null or not at all.
NullOrAbsent(i, k) ==
    k \in DOMAIN calls[i].req.json.m => calls[i].req.json.m[k] = [t |-> "Null"]

\* C12 as stated: for every forwarder and every optional parameter left
\* unset, the request body carries the field as null or omits it.
C12_UnsetIsNull ==
    \A i \in Slots :
        (fwd[i].tool # "none" /\ calls[i].req.sent) =>
            \A k \in UnsetOptionals(i) : NullOrAbsent(i, k)

\* C12 as amended: the same for every forwarder and optional parameter but
\* create_filter's `enabled`, which is sent as true when left unset.
C12_UnsetIsNullButEnabled ==
    \A i \in Slots :
        (fwd[i].tool # "none" /\ calls[i].req.sent) =>
            \A k \in UnsetOptionals(i) :
                IF fwd[i].tool = "create_filter" /\ k = "enabled"
                THEN calls[i].req.json.m[k] = [t |-> "Bool", b |-> TRUE]
                ELSE /\ k \in DOMAIN calls[i].req.json.m
                     /\ calls[i].req.json.m[k] = [t |-> "Null"]

\* C12 happens: update_filter, a forwarder with four optional parameters,
\* has sent its request with all four left unset.
C12_Witness ==
    \E i \in Slots :
        /\ fwd[i].tool = "update_filter"
        /\ calls[i].req.sent
        /\ Cardinality(UnsetOptionals(i)) = 4

----------------------------------------------------------------------------
(* Properties of concurrent calls *)

\* The outcome the response of call c alone determines: no response, or a
\* body that could not be read, is ConnectionFailed; a 401 is Unauthorized;
\* otherwise the body the call received decides.
OwnOutcome(c) ==
    IF c.resp.status = 0 \/ c.text = "failed" THEN [tag |-> "ConnectionFailed"]
    ELSE IF c.resp.status = 401 THEN [tag |-> "Unauthorized"]
    ELSE IF ~ParsedBody(c).ok THEN [tag |-> "InvalidJson"]
    ELSE IF HasErrorString(c)
         THEN [tag |-> "ExtensionError",
               msg |-> ParsedBody(c).v.m[<<101, 114, 114, 111, 114>>].s]
         ELSE [tag |-> "Ok", value |-> ParsedBody(c).v]

\* C13: under any interleaving of calls on the shared Bridge, the base
\* endpoint and the secret keep the values given at construction, every
\* request is built from them and from its own call's path, and the outcome
\* of each call is the one its own response determines, whatever the other
\* calls in flight received or returned.
C13_Independent ==
    /\ bridge.built =>
           (bridge.base_url = "http://localhost:8765"
               /\ bridge.token = token_res.token)
    /\ \A i \in Slots :
           /\ calls[i].req.sent =>
                  /\ calls[i].req.url = "http://localhost:8765" \o forward(fwd[i]).path
                  /\ calls[i].req.json = forward(fwd[i]).params
                  /\ calls[i].req.authorization = BearerSpace \o token_res.token
           /\ calls[i].pc \in {"done", "returned"} =>
                  calls[i].out = OwnOutcome(calls[i])

\* C13 happens: two calls are in flight at once with different responses,
\* the second has its outcome from its own body while the first, which got
\* its response earlier, has not yet read its body.
C13_Witness ==
    /\ MaxCalls >= 2
    /\ calls[1].pc = "reading"
    /\ calls[2].pc = "done" /\ calls[2].text = "read"
    /\ calls[1].resp # calls[2].resp
    /\ after_text(calls[1].resp.body) # calls[2].out
    /\ calls[1].req.url # calls[2].req.url

----------------------------------------------------------------------------
(* Properties of the forwarders' results *)

\* The display text of each kind of BridgeError.
DisplayText(e) ==
    CASE e.tag = "ConnectionFailed" ->
           T(<<"T", "h", "u", "n", "d", "e", "r", "b", "i", "r", "d", " ", "n", "o",
               "t", " ", "r", "e", "a", "c", "h", "a", "b", "l", "e", " ", "emdash",
               " ", "i", "s", " ", "i", "t", " ", "r", "u", "n", "n", "i", "n", "g",
               " ", "w", "i", "t", "h", " ", "t", "h", "e", " ", "M", "C", "P", " ",
               "e", "x", "t", "e", "n", "s", "i", "o", "n", "?">>)
      [] e.tag = "Unauthorized" ->
           T(<<"U", "n", "a", "u", "t", "h", "o", "r", "i", "z", "e", "d", " ",
               "emdash", " ", "a", "u", "t", "h", " ", "t", "o", "k", "e", "n", " ",
               "m", "i", "s", "m", "a", "t", "c", "h">>)
      [] e.tag = "ExtensionError" ->
           T(<<"E", "x", "t", "e", "n", "s", "i", "o", "n", " ", "e", "r", "r",
               "o", "r", ":", " ">>) \o e.msg
      [] e.tag = "InvalidJson" ->
           T(<<"I", "n", "v", "a", "l", "i", "d", " ", "J", "S", "O", "N", " ", "f",
               "r", "o", "m", " ", "e", "x", "t", "e", "n", "s", "i", "o", "n", ":",
               " ", "?">>)

\* The pretty-printed text of NestedBody: keys in order, two spaces a level,
\* the line feed of the string escaped.
NestedPretty ==
    T(<<"{", "LF",
        " ", " ", Q, "a", Q, ":", " ", "{", "}", ",", "LF",
        " ", " ", Q, "b", Q, ":", " ", "[", "LF",
        " ", " ", " ", " ", "1", ",", "LF",
        " ", " ", " ", " ", Q, "a", "\\", "n", Q, "LF",
        " ", " ", "]", "LF",
        "}">>)

\* C14: whichever forwarder made the call, when Bridge::call failed the
\* forwarder returns one MCP internal error whose message is the display
\* text of the BridgeError, with no data and no content; it returns a
\* success result only when the call returned Ok, and then the result is one
\* text content holding the pretty-printed value, which parses back to the
\* value (the text of NestedBody's value is NestedPretty); before the call
\* has returned there is no result.
C14_SingleFailure ==
    \A i \in Slots :
        /\ calls[i].pc # "returned" => fwd[i].res = NoRes
        /\ calls[i].pc = "returned" =>
               /\ fwd[i].res.tag \in {"Ok", "Err"}
               /\ fwd[i].res.tag = "Ok" <=> calls[i].out.tag = "Ok"
               /\ fwd[i].res.tag = "Err" =>
                      /\ DOMAIN fwd[i].res = {"tag", "error"}
                      /\ fwd[i].res.error.code = "INTERNAL_ERROR"
                      /\ fwd[i].res.error.message = DisplayText(calls[i].out)
                      /\ ~fwd[i].res.error.data.some
               /\ fwd[i].res.tag = "Ok" =>
                      /\ DOMAIN fwd[i].res = {"tag", "result"}
                      /\ ~fwd[i].res.result.is_error
                      /\ Len(fwd[i].res.result.content) = 1
                      /\ fwd[i].res.result.content[1].type = "text"
                      /\ fwd[i].res.result.content[1].text
                             = to_string_pretty(calls[i].out.value)
                      /\ from_str(fwd[i].res.result.content[1].text)
                             = [ok |-> TRUE, v |-> calls[i].out.value]
                      /\ calls[i].resp.body = NestedBody =>
                             fwd[i].res.result.content[1].text = NestedPretty

\* C14 happens: a forwarder other than list_accounts has returned the
\* internal error of an ExtensionError the extension reported in a body
\* that parsed.
C14_Witness ==
    /\ calls[1].pc = "returned"
    /\ fwd[1].tool = "send_mail"
    /\ calls[1].text = "read"
    /\ calls[1].out.tag = "ExtensionError"
    /\ fwd[1].res.tag = "Err"
    /\ fwd[1].res.error.message
           = T(<<"E", "x", "t", "e", "n", "s", "i", "o", "n", " ", "e", "r", "r",
                 "o", "r", ":", " ", "n", "o">>)

----------------------------------------------------------------------------
(* Properties of the statuses other than 401 *)

\* What the call c returns had its request been answered by resp and the
\* body been read.
OutcomeOn(c, resp) ==
    LET sending == [c EXCEPT !.pc = "sending", !.resp = NoResp,
                             !.text = "unread", !.out = Pending]
        r == on_response(sending, resp)
    IN IF r.pc = "reading" THEN on_text(r).out ELSE r.out

\* C15: for every response status other than 401, 404 and 500 included, the
\* call goes on to read the body, and once the body is read the outcome is a
\* function of the body text alone: the same body under any other status than
\* 401 gives the same outcome, a body that parses to a value without a string
\* `error` member is returned as success, and a body that does not parse
\* yields InvalidJson.
C15_StatusIgnored ==
    \A i \in Slots :
        (calls[i].resp.status \notin {0, 401}) =>
            /\ calls[i].pc \in {"reading", "done", "returned"}
            /\ calls[i].pc = "reading" <=> calls[i].text = "unread"
            /\ calls[i].text = "read" =>
                   /\ \A st \in Statuses \ {401} :
                          OutcomeOn(calls[i], [status |-> st,
                                               body |-> calls[i].resp.body])
                              = calls[i].out
                   /\ calls[i].out.tag \in {"Ok", "ExtensionError", "InvalidJson"}
                   /\ calls[i].out.tag = "InvalidJson" <=> ~ParsedBody(calls[i]).ok
                   /\ calls[i].out.tag = "Ok" <=>
                          (ParsedBody(calls[i]).ok /\ ~HasErrorString(calls[i]))
                   /\ calls[i].out.tag = "Ok" =>
                          calls[i].out.value = ParsedBody(calls[i]).v

\* C15 happens: a 500 whose body is JSON without a string `error` member has
\* been returned as success.
C15_Witness ==
    /\ calls[1].resp.status = 500
    /\ calls[1].pc = "done"
    /\ calls[1].out.tag = "Ok"
    /\ calls[1].out.value.t = "Object"
    /\ DOMAIN calls[1].out.value.m # {}

----------------------------------------------------------------------------
(* Properties of sanitizing before parsing *)

\* C16: the body is sanitized before it is parsed: for every response other
\* than a 401 whose body was read, the outcome is the outcome the same call
\* has for the sanitized body, InvalidJson is returned exactly when the
\* sanitized text fails to parse as JSON, and a body that holds raw
\* disallowed control characters but whose sanitized text is valid JSON never
\* yields InvalidJson.
C16_SanitizedFirst ==
    \A i \in Slots :
        (calls[i].resp.status \notin {0, 401} /\ calls[i].text = "read") =>
            /\ calls[i].out
                   = OutcomeOn(calls[i],
                               [status |-> calls[i].resp.status,
                                body |-> sanitize_str(calls[i].resp.body)])
            /\ calls[i].out.tag = "InvalidJson"
                   <=> ~from_str(sanitize_str(calls[i].resp.body)).ok
            /\ (/\ sanitize_str(calls[i].resp.body) # calls[i].resp.body
                /\ from_str(sanitize_str(calls[i].resp.body)).ok)
                   => calls[i].out.tag \in {"Ok", "ExtensionError"}

\* C16 happens: a body that does not parse as it arrived, because of a raw
\* control character, was returned as the value its sanitized text parses to.
C16_Witness ==
    /\ calls[1].pc = "done"
    /\ calls[1].text = "read"
    /\ \E k \in 1..Len(calls[1].resp.body) : calls[1].resp.body[k] < 32
    /\ sanitize_str(calls[1].resp.body) # calls[1].resp.body
    /\ ~from_str(calls[1].resp.body).ok
    /\ calls[1].out.tag = "Ok"
    /\ calls[1].out.value = from_str(sanitize_str(calls[1].resp.body)).v

====
